---- MODULE Spec2Model ----
(***************************************************************************)
(* Group-gated feed unlock and statistics consistency of thesocialplatform. *)
(* The model follows postService.js (createPost and the statistics         *)
(* synchronizer), userService.ts (the local profile cache), imageService.js *)
(* (uploads and cleanup) and CaptionScreen.tsx (handleSubmit).  An await on *)
(* a collaborator (AsyncStorage, Firestore, Storage) ends a step of a       *)
(* session, so two sessions interleave at the awaits.                       *)
(***************************************************************************)
EXTENDS Integers, Sequences, FiniteSets, TLC

\* ------------------------------------------------------------------ bounds
MaxCalls == 2
MaxFaults == 1

\* --------------------------------------------------------------- constants
ACTIVITY_LOG_CAP == 50
MAX_IMAGE_SIZE == 5 * 1024 * 1024
ALLOWED_TYPES == {"image/jpeg", "image/jpg", "image/png", "image/webp"}

Sessions == {"s1", "s2"}

\* Text is a sequence of one-character strings; Null stands for null/undefined.
Null == <<"null">>
U1 == <<"u", "1">>
U2 == <<"u", "2">>
G1 == <<"g", "1">>
G2 == <<"g", "2">>
GroupKeys == {G1, G2}

\* createPost arguments: the well-formed calls, and calls in which one
\* required argument is missing, empty or blank
GoodInput ==
  [back |-> <<"b">>, caption |-> <<" ", "h", "i">>, authorName |-> <<"A">>,
   authorId |-> U1, groupId |-> G1, front |-> Null]
GoodInputs ==
  {GoodInput,
   [GoodInput EXCEPT !.groupId = G2, !.front = <<"f">>],
   [GoodInput EXCEPT !.authorId = U2],
   [GoodInput EXCEPT !.groupId = <<" ", "g", "1">>]}
BadInputs ==
  {[GoodInput EXCEPT !.back = Null], [GoodInput EXCEPT !.back = <<>>],
   [GoodInput EXCEPT !.caption = Null], [GoodInput EXCEPT !.caption = <<" ">>],
   [GoodInput EXCEPT !.authorName = <<>>],
   [GoodInput EXCEPT !.authorId = <<>>],
   [GoodInput EXCEPT !.authorId = <<" ">>],
   [GoodInput EXCEPT !.groupId = <<>>],
   [GoodInput EXCEPT !.groupId = <<" ", " ">>, !.front = <<"f">>]}
CreatePostInputs == GoodInputs \cup BadInputs

\* ----------------------------------------------------------- pure helpers
RECURSIVE TrimLeft(_)
TrimLeft(s) ==
  IF s = <<>> THEN <<>>
  ELSE IF Head(s) = " " THEN TrimLeft(Tail(s)) ELSE s

RECURSIVE TrimRight(_)
TrimRight(s) ==
  IF s = <<>> THEN <<>>
  ELSE IF s[Len(s)] = " " THEN TrimRight(SubSeq(s, 1, Len(s) - 1)) ELSE s

\* String.prototype.trim
Trim(s) == TrimRight(TrimLeft(s))

\* JavaScript truthiness of a string-or-null value
Truthy(s) == s # Null /\ s # <<>>

\* caption?.trim() and friends: undefined for null, else the trimmed text
TrimmedTruthy(s) == s # Null /\ Trim(s) # <<>>

\* Array.prototype.includes
Includes(seq, x) == \E i \in 1..Len(seq) : seq[i] = x

\* number of occurrences of x in seq
Occurrences(seq, x) == Cardinality({i \in 1..Len(seq) : seq[i] = x})

\* a slice that keeps the oldest n entries
SliceLast_KeepOldest(seq, n) ==
  IF Len(seq) <= n THEN seq ELSE SubSeq(seq, 1, n)

\* Array.prototype.slice(-n)
SliceLast(seq, n) ==
  IF Len(seq) <= n THEN seq ELSE SubSeq(seq, Len(seq) - n + 1, Len(seq))

NoUser == [absent |-> TRUE]
IsUser(u) == "id" \in DOMAIN u

\* createUserInFirebase: the profile of a freshly created account
FreshUser(uid) ==
  [id |-> uid, name |-> <<"A">>, groups |-> {}, groupsPosted |-> <<>>,
   totalPosts |-> 0, activityLog |-> <<>>]

\* a merge that keeps only the updated fields and resets the others
MergeUser_Replace(cur, data) ==
  [f \in DOMAIN cur |->
     IF f \in DOMAIN data THEN data[f]
     ELSE IF f \in {"id", "name"} THEN cur[f]
     ELSE IF f \in {"groupsPosted", "activityLog"} THEN <<>>
     ELSE IF f = "groups" THEN {} ELSE 0]

\* { ...currentUser, ...updatedData }
MergeUser(cur, data) ==
  [f \in DOMAIN cur |-> IF f \in DOMAIN data THEN data[f] ELSE cur[f]]


\* validation that tests the caption without trimming it
ValidationError_NoTrim(a) ==
  IF ~Truthy(a.back) THEN "back"
  ELSE IF ~Truthy(a.caption) THEN "caption"
  ELSE IF ~TrimmedTruthy(a.authorName) THEN "authorName"
  ELSE IF ~TrimmedTruthy(a.authorId) THEN "authorId"
  ELSE IF ~TrimmedTruthy(a.groupId) THEN "groupId"
  ELSE "ok"

\* createPost input validation (the five checks, in order)
ValidationError(a) ==
  IF ~Truthy(a.back) THEN "back"
  ELSE IF ~TrimmedTruthy(a.caption) THEN "caption"
  ELSE IF ~TrimmedTruthy(a.authorName) THEN "authorName"
  ELSE IF ~TrimmedTruthy(a.authorId) THEN "authorId"
  ELSE IF ~TrimmedTruthy(a.groupId) THEN "groupId"
  ELSE "ok"

\* Feed Unlock Evaluator: currentUser.groupsPosted?.includes(groupId) || false
IsUnlocked(profile, g) == IsUser(profile) /\ Includes(profile.groupsPosted, g)

\* ---------------------------------------------------------------- state
VARIABLES
  cache,        \* AsyncStorage record under USER_STORAGE_KEY, or NoUser
  remoteUser,   \* Firestore users/{id}: the mirrored fields
  posts,        \* Firestore posts collection: the set of documents
  groupDocs,    \* Firestore groups/{id}
  blobs,        \* Storage: the set of object paths
  sess,         \* per session: position and locals of its asynchronous flow
  calls,        \* operations started so far
  faults,       \* collaborator failures so far
  overlapSeen,  \* some operation started while another was in flight
  returned,     \* createPost calls that returned a Post, per authorId
  uncounted,    \* Posts returned without their group's counter being
                \* incremented, per group
  statusWrites  \* posting-status updates that reached the cache

vars == <<cache, remoteUser, posts, groupDocs, blobs, sess, calls, faults,
          overlapSeen, returned, uncounted, statusWrites>>

shared == <<cache, remoteUser, posts, groupDocs, blobs>>

NoPath == <<>>
NoImg == [main |-> NoPath, front |-> NoPath]
None == [absent |-> TRUE]
NoRes == [kind |-> "none"]

\* a session with no operation in progress
IdleSess ==
  [pc |-> "idle", op |-> "none", callId |-> 0, args |-> None, hs |-> None,
   img |-> NoImg, uploads |-> <<>>, cleanup |-> "none", newPost |-> None, st |-> None,
   ul |-> None, ua |-> None, res |-> NoRes, eff |-> {}, persisted |-> FALSE,
   q |-> None, grp |-> None, gs |-> "none"]

Init ==
  /\ cache \in {NoUser, FreshUser(U1)}
  /\ remoteUser = [groupsPosted |-> <<>>, totalPosts |-> 0, groups |-> {}]
  /\ posts = {}
  /\ groupDocs = [g \in GroupKeys |->
                    [members |-> <<U1>>, memberCount |-> 1, totalPosts |-> 0]]
  /\ blobs = {}
  /\ sess = [p \in Sessions |-> IdleSess]
  /\ calls = 0
  /\ faults = 0
  /\ overlapSeen = FALSE
  /\ returned = [u \in {U1, U2} |-> 0]
  /\ uncounted = [g \in GroupKeys |-> 0]
  /\ statusWrites = 0

\* --------------------------------------------------------- step helpers
CanFail == faults < MaxFaults
Fault(f) == faults' = IF f THEN faults + 1 ELSE faults

\* a top-level operation starts in session p
Begin(p) ==
  /\ sess[p].pc = "idle"
  /\ calls < MaxCalls
  /\ calls' = calls + 1
  /\ overlapSeen' =
       (overlapSeen \/ \E q \in Sessions \ {p} : sess[q].pc # "idle")

\* session p continues as record r
Become(p, r) == sess' = [sess EXCEPT ![p] = r]

\* createPost settles with result r: it returned newPost or it rejected
Settled(s, r) == [s EXCEPT !.pc = "cp_done", !.res = r]
Rejected(why) == [kind |-> "error", why |-> why]
\* statsError is what the catch around updatePostStatistics logged
ReturnedPost(s, statsError) ==
  [kind |-> "post", post |-> s.newPost, statsError |-> statsError]
\* bookkeeping when a step makes createPost return a Post; incremented
\* says whether the call's increment of the group counter was applied
Count(next, incremented) ==
  LET post == next.pc = "cp_done" /\ next.res.kind = "post"
  IN /\ returned' = IF post
                      THEN [returned EXCEPT ![next.args.authorId] = @ + 1]
                      ELSE returned
     /\ uncounted' = IF post /\ ~incremented
                       THEN [uncounted EXCEPT ![next.res.post.groupId] = @ + 1]
                       ELSE uncounted

\* getUserLocally: the cached record, or null when the read fails
ReadUser(f) == IF f THEN NoUser ELSE cache

\* the descriptor uploadImage returns for the object at path:
\* { downloadURL, path, size, ... }
Bytes(n) == <<"bytes", n>>
Descriptor(path) ==
  [downloadURL |-> <<"url", path[1], path[2]>>,
   path |-> path,
   size |-> Bytes(IF path[2] = "main" THEN 2 ELSE 1)]

\* post data that tags every post as a dual-camera post
PostData_AlwaysDual(a, image) ==
  [id |-> 0,
   imageUrl |-> Descriptor(image.main).downloadURL,
   imagePath |-> Descriptor(image.main).path,
   imageSize |-> Descriptor(image.main).size,
   frontImageUrl |->
     IF Truthy(a.front) THEN Descriptor(image.front).downloadURL ELSE Null,
   frontImagePath |->
     IF Truthy(a.front) THEN Descriptor(image.front).path ELSE Null,
   frontImageSize |->
     IF Truthy(a.front) THEN Descriptor(image.front).size ELSE Null,
   caption |-> Trim(a.caption),
   authorName |-> Trim(a.authorName),
   authorId |-> Trim(a.authorId),
   groupId |-> Trim(a.groupId),
   type |-> "dual_camera"]

\* post data that drops the front image's retrieval URL
PostData_NoFrontUrl(a, image) ==
  [id |-> 0,
   imageUrl |-> Descriptor(image.main).downloadURL,
   imagePath |-> Descriptor(image.main).path,
   imageSize |-> Descriptor(image.main).size,
   frontImageUrl |-> Null,
   frontImagePath |->
     IF Truthy(a.front) THEN Descriptor(image.front).path ELSE Null,
   frontImageSize |->
     IF Truthy(a.front) THEN Descriptor(image.front).size ELSE Null,
   caption |-> Trim(a.caption),
   authorName |-> Trim(a.authorName),
   authorId |-> Trim(a.authorId),
   groupId |-> Trim(a.groupId),
   type |-> IF Truthy(a.front) THEN "dual_camera" ELSE "single_camera"]

\* postData of createPost, assembled once the uploads returned
PostData(a, image) ==
  [id |-> 0,
   imageUrl |-> Descriptor(image.main).downloadURL,
   imagePath |-> Descriptor(image.main).path,
   imageSize |-> Descriptor(image.main).size,
   frontImageUrl |->
     IF Truthy(a.front) THEN Descriptor(image.front).downloadURL ELSE Null,
   frontImagePath |->
     IF Truthy(a.front) THEN Descriptor(image.front).path ELSE Null,
   frontImageSize |->
     IF Truthy(a.front) THEN Descriptor(image.front).size ELSE Null,
   caption |-> Trim(a.caption),
   authorName |-> Trim(a.authorName),
   authorId |-> Trim(a.authorId),
   groupId |-> Trim(a.groupId),
   type |-> IF Truthy(a.front) THEN "dual_camera" ELSE "single_camera"]

\* ------------------------------------------------------------ createPost
\* createPost up to the image upload: validation runs before the first
\* await; validateGroupMembership follows and its answer is only logged
EnterCreatePost(s, a) ==
  IF ValidationError(a) = "ok"
    THEN [s EXCEPT !.args = a, !.pc = "cp_main", !.eff = {"lookup"}]
    ELSE Settled([s EXCEPT !.args = a], Rejected("validation"))

\* a caller other than the caption screen invokes createPost
CreatePost(p) ==
  \E a \in CreatePostInputs :
    /\ Begin(p)
    /\ Become(p, EnterCreatePost(
                   [sess[p] EXCEPT !.op = "create", !.callId = calls + 1], a))
    /\ UNCHANGED <<shared, faults, returned, uncounted, statusWrites>>

\* uploadImage outcomes: the bytes never reach storage, the bytes are
\* written but no download URL comes back, or the descriptor is returned
UploadOutcomes == {"ok", "no_write", "no_url"}

\* imagePath of uploadImage: unique per call and image type
ImagePath(s, imageType) == <<s.callId, imageType>>

\* uploadImage(backImageUri, ..., 'main'), alone or as step 1 of
\* uploadDualImages
UploadMain(p) ==
  /\ sess[p].pc = "cp_main"
  /\ \E o \in UploadOutcomes :
       LET s == [sess[p] EXCEPT !.eff = @ \cup {"upload"},
                                !.uploads = Append(@, "main")]
           path == ImagePath(s, "main")
           done == [s EXCEPT !.img.main = path]
       IN /\ o # "ok" => CanFail
          /\ Fault(o # "ok")
          /\ blobs' = IF o = "no_write" THEN blobs ELSE blobs \cup {path}
          /\ Become(p,
               IF o # "ok" THEN Settled(s, Rejected("upload"))
               ELSE IF Truthy(s.args.front) THEN [done EXCEPT !.pc = "cp_front"]
               ELSE [done EXCEPT !.pc = "cp_write",
                                 !.newPost = PostData(s.args, done.img)])
  /\ UNCHANGED <<cache, remoteUser, posts, groupDocs, calls, overlapSeen,
                 returned, uncounted, statusWrites>>

\* a front upload whose failure is rethrown without the cleanup
UploadFront_NoCleanup(p) ==
  /\ sess[p].pc = "cp_front"
  /\ \E o \in UploadOutcomes :
       LET s == sess[p]
           path == ImagePath(s, "front")
           done == [s EXCEPT !.img.front = path]
       IN /\ o # "ok" => CanFail
          /\ Fault(o # "ok")
          /\ blobs' = IF o = "no_write" THEN blobs ELSE blobs \cup {path}
          /\ Become(p,
               IF o # "ok" THEN Settled(s, Rejected("upload"))
               ELSE [done EXCEPT !.pc = "cp_write",
                                 !.newPost = PostData(s.args, done.img)])
  /\ UNCHANGED <<cache, remoteUser, posts, groupDocs, calls, overlapSeen,
                 returned, uncounted, statusWrites>>

\* step 2 of uploadDualImages: uploadImage(frontImageUri, ..., 'front')
UploadFront(p) ==
  /\ sess[p].pc = "cp_front"
  /\ \E o \in UploadOutcomes :
       LET s == [sess[p] EXCEPT !.uploads = Append(@, "front")]
           path == ImagePath(s, "front")
           done == [s EXCEPT !.img.front = path]
       IN /\ o # "ok" => CanFail
          /\ Fault(o # "ok")
          /\ blobs' = IF o = "no_write" THEN blobs ELSE blobs \cup {path}
          /\ Become(p,
               IF o # "ok" THEN [s EXCEPT !.pc = "cp_cleanup"]
               ELSE [done EXCEPT !.pc = "cp_write",
                                 !.newPost = PostData(s.args, done.img)])
  /\ UNCHANGED <<cache, remoteUser, posts, groupDocs, calls, overlapSeen,
                 returned, uncounted, statusWrites>>

\* deleteImage(results.main.path) in the catch of the front upload: the
\* object is deleted (true) or the deletion fails (false); the result is
\* ignored and the front error is rethrown.  Only a failed front upload
\* leads here, so this failure needs no budget of its own.
CleanupMain(p) ==
  /\ sess[p].pc = "cp_cleanup"
  /\ \E deleted \in BOOLEAN :
       /\ blobs' = IF deleted THEN blobs \ {sess[p].img.main} ELSE blobs
       /\ Become(p, Settled([sess[p] EXCEPT
                               !.eff = @ \cup {"cleanup"},
                               !.cleanup = IF deleted THEN "deleted"
                                           ELSE "failed"],
                            Rejected("upload")))
  /\ UNCHANGED <<cache, remoteUser, posts, groupDocs, calls, faults,
                 overlapSeen, returned, uncounted, statusWrites>>

\* a write whose failure is logged and the flow goes on to the statistics
WritePost_Swallow(p) ==
  /\ sess[p].pc = "cp_write"
  /\ \E ok \in BOOLEAN :
       LET s == sess[p]
           stored == [s.newPost EXCEPT !.id = s.callId]
       IN /\ ~ok => CanFail
          /\ Fault(~ok)
          /\ posts' = IF ok THEN posts \cup {stored} ELSE posts
          /\ Become(p, [s EXCEPT !.newPost = stored, !.pc = "st_read",
                                 !.eff = IF ok THEN @ \cup {"write"} ELSE @])
  /\ UNCHANGED <<cache, remoteUser, groupDocs, blobs, calls, overlapSeen,
                 returned, uncounted, statusWrites>>

\* addDoc(collection(db, 'posts'), postData): the commit point
WritePost(p) ==
  /\ sess[p].pc = "cp_write"
  /\ \E ok \in BOOLEAN :
       LET s == sess[p]
           stored == [s.newPost EXCEPT !.id = s.callId]
       IN /\ ~ok => CanFail
          /\ Fault(~ok)
          /\ posts' = IF ok THEN posts \cup {stored} ELSE posts
          /\ Become(p,
               IF ok THEN [s EXCEPT !.newPost = stored, !.pc = "st_read",
                                    !.eff = @ \cup {"write"}]
               ELSE Settled(s, Rejected("write")))
  /\ UNCHANGED <<cache, remoteUser, groupDocs, blobs, calls, overlapSeen,
                 returned, uncounted, statusWrites>>

\* status updates that forget the unlock, overwrite the list with the
\* current group, forget the counter, or append without looking
StatusUpdateData_NoUnlock(cur, g) ==
  [totalPosts |-> cur.totalPosts + 1]

StatusUpdateData_OnlyThisGroup(cur, g) ==
  [totalPosts |-> cur.totalPosts + 1, groupsPosted |-> <<g>>]

StatusUpdateData_NoCount(cur, g) ==
  IF ~Includes(cur.groupsPosted, g)
    THEN [totalPosts |-> cur.totalPosts,
          groupsPosted |-> Append(cur.groupsPosted, g)]
    ELSE [totalPosts |-> cur.totalPosts]

StatusUpdateData_AlwaysAppend(cur, g) ==
  [totalPosts |-> cur.totalPosts + 1,
   groupsPosted |-> Append(cur.groupsPosted, g)]

StatusUpdateData_CountTwice(cur, g) ==
  IF ~Includes(cur.groupsPosted, g)
    THEN [totalPosts |-> cur.totalPosts + 2,
          groupsPosted |-> Append(cur.groupsPosted, g)]
    ELSE [totalPosts |-> cur.totalPosts + 2]

\* updateData of updateUserPostingStatus
StatusUpdateData(cur, g) ==
  IF ~Includes(cur.groupsPosted, g)
    THEN [totalPosts |-> cur.totalPosts + 1,
          groupsPosted |-> Append(cur.groupsPosted, g)]
    ELSE [totalPosts |-> cur.totalPosts + 1]

\* an activity type that calls every post a first post
ActivityType_AlwaysFirst(isFirst) == "first_post_in_group"

\* isFirstPostInGroup ? 'first_post_in_group' : 'posted_in_group'
ActivityType(isFirst) ==
  IF isFirst THEN "first_post_in_group" ELSE "posted_in_group"

\* updateUserPostingStatus up to its call of updateUserLocally; when no
\* user is cached it throws, and createPost logs that and returns newPost
UpdateUserPostingStatus(p) ==
  /\ sess[p].pc = "st_read"
  /\ \E f \in BOOLEAN :
       LET s == [sess[p] EXCEPT !.eff = @ \cup {"stats"}]
           cur == ReadUser(f)
           g == s.args.groupId
           next == IF ~IsUser(cur)
                     THEN Settled(s, ReturnedPost(s, "no current user"))
                     ELSE [s EXCEPT
                       !.pc = "ul_read",
                       !.st = [groupsPosted |-> cur.groupsPosted,
                               totalPosts |-> cur.totalPosts,
                               isFirstPostInGroup |->
                                 ~Includes(cur.groupsPosted, g)],
                       !.ul = [data |-> StatusUpdateData(cur, g),
                               sync |-> TRUE, from |-> "status",
                               ret |-> "ua_read", throwTo |-> "cp_done",
                               cur |-> NoUser],
                       !.ua = [type |->
                                 ActivityType(~Includes(cur.groupsPosted, g)),
                               groupId |-> g, ret |-> "gs_update"]]
       IN /\ f => CanFail
          /\ Fault(f)
          /\ Become(p, next)
          /\ Count(next, FALSE)
  /\ UNCHANGED <<shared, calls, overlapSeen, statusWrites>>

\* updateGroupStatistics: increment(1) on groups/{groupId}.totalPosts.
\* permission-denied is swallowed here, any other error by createPost.
\* a counter update that writes 1 instead of incrementing
IncrementTotalPosts_SetToOne(groupDoc) == [groupDoc EXCEPT !.totalPosts = 1]

\* updateDoc(groupRef, { totalPosts: increment(1), ... })
IncrementTotalPosts(groupDoc) == [groupDoc EXCEPT !.totalPosts = @ + 1]

\* a policy that swallows every failure of the counter update
GroupErrorPolicy_SwallowAll(error) == "none"

\* the catch of updateGroupStatistics: what it lets out to
\* updatePostStatistics, whose catch rethrows it to createPost
GroupErrorPolicy(error) ==
  IF error \in {"ok", "permission-denied"} THEN "none" ELSE error

\* The document key is the groupId createPost was called with, untrimmed;
\* updateDoc on a key with no document fails with not-found.
GroupUpdateOutcomes == {"ok", "permission-denied", "unavailable"}

UpdateGroupStatistics(p) ==
  /\ sess[p].pc = "gs_update"
  /\ \E o \in GroupUpdateOutcomes :
       LET g == sess[p].args.groupId
           exists == g \in DOMAIN groupDocs
           error == IF ~exists THEN "not-found" ELSE o
           s == [sess[p] EXCEPT !.eff = @ \cup {"group"}, !.gs = error]
           next == Settled(s, ReturnedPost(s, GroupErrorPolicy(error)))
       IN /\ ~exists => o = "ok"
          /\ o # "ok" => CanFail
          /\ Fault(o # "ok")
          /\ groupDocs' =
               IF error = "ok"
                 THEN [groupDocs EXCEPT ![g] = IncrementTotalPosts(@)]
                 ELSE groupDocs
          /\ Become(p, next)
          /\ Count(next, error = "ok")
  /\ UNCHANGED <<cache, remoteUser, posts, blobs, calls, overlapSeen,
                 statusWrites>>

\* ------------------------------------------------------ updateUserLocally
\* (Leave_Rethrow: the statistics error is rethrown to createPost's caller)
\* control leaves a frame of session record s for label l: "cp_done" is the
\* catch around updatePostStatistics, after which createPost returns
\* newPost; "op_done" ends the operation
Leave_Rethrow(s, l) ==
  IF l = "cp_done" THEN Settled(s, Rejected("statistics"))
  ELSE IF l = "op_done" THEN IdleSess
  ELSE [s EXCEPT !.pc = l]

Leave(s, l) ==
  IF l = "cp_done" THEN Settled(s, ReturnedPost(s, "no user to update"))
  ELSE IF l = "op_done" THEN IdleSess
  ELSE [s EXCEPT !.pc = l]

\* const currentUser = await getUserLocally(); throws when there is none
ULRead(p) ==
  /\ sess[p].pc = "ul_read"
  /\ \E f \in BOOLEAN :
       LET s == sess[p]
           cur == ReadUser(f)
           next == IF IsUser(cur)
                     THEN [s EXCEPT !.ul.cur = cur, !.pc = "ul_write"]
                     ELSE Leave([s EXCEPT !.ul = None], s.ul.throwTo)
       IN /\ f => CanFail
          /\ Fault(f)
          /\ Become(p, next)
          /\ Count(next, FALSE)
  /\ UNCHANGED <<shared, calls, overlapSeen, statusWrites>>

\* fields of updatedData that the remote user document carries
MirrorUser(doc, data) ==
  [f \in DOMAIN doc |-> IF f \in DOMAIN data THEN data[f] ELSE doc[f]]

\* the rest of updateUserLocally.  await saveUserLocally(updatedUser): a
\* failed setItem is logged and reported as false, which updateUserLocally
\* does not look at.  Then, if syncToFirebase && currentUser.id,
\* await updateDoc(userRef, updatedData), whose failure is only logged.
\* No flow reads the remote document, so the mirror is taken in the same
\* step as the local write.
ULWrite(p) ==
  /\ sess[p].pc = "ul_write"
  /\ \E saved \in BOOLEAN, mirrored \in BOOLEAN :
       LET s == sess[p]
           sync == s.ul.sync /\ Truthy(s.ul.cur.id)
           status == saved /\ s.ul.from = "status"
           next == Leave([s EXCEPT !.persisted = @ \/ status, !.ul = None],
                         s.ul.ret)
       IN /\ ~sync => mirrored
          /\ ~(saved /\ mirrored) => CanFail
          /\ Fault(~(saved /\ mirrored))
          /\ cache' = IF saved THEN MergeUser(s.ul.cur, s.ul.data) ELSE cache
          /\ remoteUser' = IF sync /\ mirrored
                             THEN MirrorUser(remoteUser, s.ul.data)
                             ELSE remoteUser
          /\ statusWrites' = IF status THEN statusWrites + 1 ELSE statusWrites
          /\ Become(p, next)
          /\ Count(next, FALSE)
  /\ UNCHANGED <<posts, groupDocs, blobs, calls, overlapSeen>>

\* ----------------------------------------------------- updateUserActivity
\* activityLog.push(activity); activityLog.slice(-50)
TrimmedLog(cur, entry) ==
  SliceLast(Append(cur.activityLog, entry), ACTIVITY_LOG_CAP)

\* updateUserActivity up to its call of updateUserLocally; it returns
\* quietly when there is no user and swallows whatever is thrown below
UARead(p) ==
  /\ sess[p].pc = "ua_read"
  /\ \E f \in BOOLEAN :
       LET s == sess[p]
           cur == ReadUser(f)
           \* { type, timestamp, data }: the timestamp tells the calls apart
           entry == [type |-> s.ua.type, groupId |-> s.ua.groupId,
                     call |-> s.callId]
           next == IF IsUser(cur)
                     THEN [s EXCEPT
                       !.pc = "ul_read",
                       !.ua = None,
                       !.ul = [data |-> [activityLog |-> TrimmedLog(cur, entry)],
                               entry |-> entry,
                               sync |-> FALSE, from |-> "activity",
                               ret |-> s.ua.ret, throwTo |-> s.ua.ret,
                               cur |-> NoUser]]
                     ELSE Leave([s EXCEPT !.ua = None], s.ua.ret)
       IN /\ f => CanFail
          /\ Fault(f)
          /\ Become(p, next)
          /\ Count(next, FALSE)
  /\ UNCHANGED <<shared, calls, overlapSeen, statusWrites>>

\* ------------------------------------------------ CaptionScreen.handleSubmit
\* handleSubmit up to its call of createPost: both images, a caption and a
\* group are present, the profile is read and the first-post flag computed;
\* without a profile it throws "User not found" into its own catch
SubmitPost(p) ==
  \E g \in GroupKeys, f \in BOOLEAN :
    LET user == ReadUser(f)
        s == [sess[p] EXCEPT
                !.op = "submit", !.callId = calls + 1,
                !.hs = [groupsPosted |-> user.groupsPosted, groupId |-> g,
                        isFirstPostInGroup |->
                          ~Includes(user.groupsPosted, g)]]
    IN /\ Begin(p)
       /\ f => CanFail
       /\ Fault(f)
       /\ Become(p,
            IF IsUser(user)
              THEN EnterCreatePost(s,
                     [back |-> <<"b">>, caption |-> Trim(<<" ", "h", "i">>),
                      authorName |-> user.name, authorId |-> user.id,
                      groupId |-> g, front |-> <<"f">>])
              ELSE IdleSess)
       /\ UNCHANGED <<shared, returned, uncounted, statusWrites>>

\* the caller of createPost resumes after the await: the caption screen
\* updates groupsPosted itself when its snapshot said "first post", and
\* logs the activity; any other caller is done
Resume(p) ==
  /\ sess[p].pc = "cp_done"
  /\ LET s == sess[p]
         \* the frame of createPost is gone; handleSubmit keeps its own locals
         h == [IdleSess EXCEPT !.op = s.op, !.callId = s.callId, !.hs = s.hs]
         activity == [type |-> ActivityType(s.hs.isFirstPostInGroup),
                      groupId |-> s.hs.groupId, ret |-> "op_done"]
     IN Become(p,
          IF s.op = "submit" /\ s.res.kind = "post"
            THEN IF s.hs.isFirstPostInGroup
                   THEN [h EXCEPT
                     !.pc = "ul_read",
                     !.ua = activity,
                     !.ul = [data |-> [groupsPosted |->
                               Append(s.hs.groupsPosted, s.hs.groupId)],
                             sync |-> TRUE, from |-> "submit",
                             ret |-> "ua_read", throwTo |-> "op_done",
                             cur |-> NoUser]]
                   ELSE [h EXCEPT !.pc = "ua_read", !.ua = activity]
            ELSE IdleSess)
  /\ UNCHANGED <<shared, calls, faults, overlapSeen, returned, uncounted, statusWrites>>

\* ------------------------------------- other writers of the profile cache
\* a screen logs an activity of its own (NameEntryScreen: "user_created")
UpdateUserActivity(p) ==
  /\ Begin(p)
  /\ Become(p, [sess[p] EXCEPT
                 !.pc = "ua_read", !.op = "activity", !.callId = calls + 1,
                 !.ua = [type |-> "user_created", groupId |-> Null,
                         ret |-> "op_done"]])
  /\ UNCHANGED <<shared, faults, returned, uncounted, statusWrites>>

\* addUserToGroups / removeUserFromGroup up to updateUserLocally: the new
\* groups list is computed from the profile read here; a missing profile
\* or another user's id returns false
ChangeGroups(p, userId, g, add) ==
  /\ Begin(p)
  /\ \E f \in BOOLEAN :
       LET cur == ReadUser(f)
       IN /\ f => CanFail
          /\ Fault(f)
          /\ Become(p,
               IF IsUser(cur) /\ cur.id = userId
                 THEN [sess[p] EXCEPT
                   !.pc = "ul_read", !.op = "groups", !.callId = calls + 1,
                   !.ul = [data |-> [groups |-> IF add THEN cur.groups \cup {g}
                                              ELSE cur.groups \ {g}],
                           sync |-> TRUE, from |-> "groups",
                           ret |-> "op_done", throwTo |-> "op_done",
                           cur |-> NoUser]]
                 ELSE IdleSess)
  /\ UNCHANGED <<shared, returned, uncounted, statusWrites>>

\* userService.js addUserToGroups(userId, [groupId])
AddUserToGroups(p) ==
  \E u \in {U1, U2}, g \in GroupKeys : ChangeGroups(p, u, g, TRUE)

\* userService.js removeUserFromGroup(userId, groupId)
RemoveUserFromGroup(p) ==
  \E u \in {U1, U2}, g \in GroupKeys : ChangeGroups(p, u, g, FALSE)

\* ---------------------------------------------------- Post Store Gateway
\* the documents a query yields (their order is not modelled)
PostsWhere(authorId, groupId) ==
  {d \in posts : /\ (authorId # Null => d.authorId = authorId)
                 /\ (groupId # Null => d.groupId = groupId)}

\* a read settles: it resolved with documents or it rejected
QueryResult(fn, storeFailed, threw, docs) ==
  [fn |-> fn, storeFailed |-> storeFailed,
   outcome |-> IF threw THEN "throw" ELSE "value", docs |-> docs]

\* a query function runs in session p: one getDocs, which may fail
RunQuery(p, fn, rethrows, docs) ==
  /\ Begin(p)
  /\ \E f \in BOOLEAN :
       /\ f => CanFail
       /\ Fault(f)
       /\ Become(p, [sess[p] EXCEPT !.pc = "q_done", !.op = "query",
                                    !.callId = calls + 1,
                                    !.q = QueryResult(fn, f, rethrows /\ f,
                                            IF f THEN {} ELSE docs)])
  /\ UNCHANGED <<shared, returned, uncounted, statusWrites>>

\* postService.js getGroupPosts: a missing groupId or a failed getDocs ends
\* in the catch, which returns []
GetGroupPosts(p) ==
  \E g \in GroupKeys \cup {Null} :
    RunQuery(p, "getGroupPosts", FALSE,
             IF ~Truthy(g) THEN {} ELSE PostsWhere(Null, g))

\* postService.ts getGroupPosts: the catch logs and rethrows
GetGroupPostsTs(p) ==
  \E g \in GroupKeys :
    RunQuery(p, "getGroupPosts.ts", TRUE, PostsWhere(Null, g))

\* postService.js getUserPosts
GetUserPosts(p) ==
  \E u \in {U1, U2} :
    RunQuery(p, "getUserPosts", FALSE, PostsWhere(u, Null))

\* postService.js getUserPostsInGroup
GetUserPostsInGroup(p) ==
  \E u \in {U1, U2}, g \in GroupKeys :
    RunQuery(p, "getUserPostsInGroup", FALSE, PostsWhere(u, g))

\* the caller of a query resumes
QueryReturn(p) ==
  /\ sess[p].pc = "q_done"
  /\ Become(p, IdleSess)
  /\ UNCHANGED <<shared, calls, faults, overlapSeen, returned, uncounted, statusWrites>>

\* ------------------------------------------------------------------ Next
Next ==
  \E p \in Sessions :
    \/ CreatePost(p)
    \/ SubmitPost(p)
    \/ UploadMain(p)
    \/ UploadFront(p)
    \/ CleanupMain(p)
    \/ WritePost(p)
    \/ UpdateUserPostingStatus(p)
    \/ ULRead(p)
    \/ ULWrite(p)
    \/ UARead(p)
    \/ UpdateGroupStatistics(p)
    \/ Resume(p)
    \/ UpdateUserActivity(p)
    \/ AddUserToGroups(p)
    \/ RemoveUserFromGroup(p)
    \/ GetGroupPosts(p)
    \/ GetGroupPostsTs(p)
    \/ GetUserPosts(p)
    \/ GetUserPostsInGroup(p)
    \/ QueryReturn(p)

Spec == Init /\ [][Next]_vars

\* ----------------------------------------------------------- activity log
\* The log of a profile that is in use: updateUserActivity has run n times
\* since the account was created, for n at and just below the cap.
SeedLengths == {0, ACTIVITY_LOG_CAP - 1, ACTIVITY_LOG_CAP}

SeedLog(n) ==
  [i \in 1..n |-> [type |-> "user_created", groupId |-> Null,
                    call |-> i - n]]

ActivityInit ==
  /\ \E n \in SeedLengths :
       cache = [FreshUser(U1) EXCEPT !.activityLog = SeedLog(n)]
  /\ remoteUser = [groupsPosted |-> <<>>, totalPosts |-> 0, groups |-> {}]
  /\ posts = {}
  /\ groupDocs = [g \in GroupKeys |->
                    [members |-> <<U1>>, memberCount |-> 1, totalPosts |-> 0]]
  /\ blobs = {}
  /\ sess = [p \in Sessions |-> IdleSess]
  /\ calls = 0
  /\ faults = 0
  /\ overlapSeen = FALSE
  /\ returned = [u \in {U1, U2} |-> 0]
  /\ uncounted = [g \in GroupKeys |-> 0]
  /\ statusWrites = 0

ActivityNext ==
  \E p \in Sessions :
    \/ UpdateUserActivity(p)
    \/ UARead(p)
    \/ ULRead(p)
    \/ ULWrite(p)

ActivitySpec == ActivityInit /\ [][ActivityNext]_vars

\* ----------------------------------------------------------- deleteImage
\* imageService.js deleteImage called on its own (deleteImages does so for
\* each path of a list).  Blob storage starts with the objects of two
\* earlier uploads, or empty.
BlobPaths == {ImagePath([callId |-> 1], "main"), ImagePath([callId |-> 2], "main")}

BlobInit ==
  /\ cache = FreshUser(U1)
  /\ remoteUser = [groupsPosted |-> <<>>, totalPosts |-> 0, groups |-> {}]
  /\ posts = {}
  /\ groupDocs = [g \in GroupKeys |->
                    [members |-> <<U1>>, memberCount |-> 1, totalPosts |-> 0]]
  /\ blobs \in {{}, BlobPaths}
  /\ sess = [p \in Sessions |-> IdleSess]
  /\ calls = 0
  /\ faults = 0
  /\ overlapSeen = FALSE
  /\ returned = [u \in {U1, U2} |-> 0]
  /\ uncounted = [g \in GroupKeys |-> 0]
  /\ statusWrites = 0

\* a deleteImage that reports a missing object as a failure
DeleteImageValue_AbsentFails(hasPath, present, failed) ==
  hasPath /\ ~failed /\ present

\* what deleteImage returns: true after deleteObject resolved and in the
\* catch for storage/object-not-found, false in the catch for anything
\* else, which includes the error it throws itself for a missing path
DeleteImageValue(hasPath, present, failed) ==
  IF ~hasPath THEN FALSE
  ELSE IF failed THEN FALSE
  ELSE TRUE

\* deleteImage(imagePath): deleteObject removes the object, rejects with
\* storage/object-not-found when there is none, or fails otherwise
DeleteImage(p) ==
  /\ Begin(p)
  /\ \E path \in BlobPaths \cup {Null, <<>>}, failed \in BOOLEAN :
       LET hasPath == Truthy(path)
           present == path \in blobs
       IN /\ failed => (CanFail /\ hasPath)
          /\ Fault(failed)
          /\ blobs' = IF hasPath /\ ~failed THEN blobs \ {path} ELSE blobs
          /\ Become(p, [sess[p] EXCEPT
               !.pc = "del_done", !.op = "delete", !.callId = calls + 1,
               !.q = [fn |-> "deleteImage", path |-> path,
                      present |-> present, failed |-> failed,
                      outcome |-> "value",
                      value |-> DeleteImageValue(hasPath, present, failed)]])
  /\ UNCHANGED <<cache, remoteUser, posts, groupDocs, returned, uncounted,
                 statusWrites>>

\* the caller of deleteImage resumes
DeleteReturn(p) ==
  /\ sess[p].pc = "del_done"
  /\ Become(p, IdleSess)
  /\ UNCHANGED <<shared, calls, faults, overlapSeen, returned, uncounted,
                 statusWrites>>

BlobNext ==
  \E p \in Sessions :
    \/ DeleteImage(p)
    \/ DeleteReturn(p)

BlobSpec == BlobInit /\ [][BlobNext]_vars

\* ----------------------------------------------------------- uploadImage
\* imageService.js uploadImage on its own: the bytes uriToBlob resolved are
\* validated, then written with uploadBytes, then getDownloadURL is asked.
\* A Blob has a size in bytes and a type, "" when none was declared.
BlobSizes == {0, 1, MAX_IMAGE_SIZE - 1, MAX_IMAGE_SIZE, MAX_IMAGE_SIZE + 1}
BlobTypes == ALLOWED_TYPES \cup {"", "image/gif", "text/plain"}
ResolvedBlobs == [size : BlobSizes, type : BlobTypes]

\* if (!blob): uriToBlob resolved to no Blob at all
IsBlob(blob) == "size" \in DOMAIN blob

\* a validation that rejects a blob of exactly the maximum size
ValidateImageBlob_RejectAtMax(blob) ==
  IF ~IsBlob(blob) THEN "null"
  ELSE IF blob.size = 0 THEN "empty"
  ELSE IF blob.size >= MAX_IMAGE_SIZE THEN "too large"
  ELSE IF blob.type = "" THEN "ok"
  ELSE IF blob.type \notin ALLOWED_TYPES THEN "invalid type"
  ELSE "ok"

\* validateImageBlob: "ok" when it returns, else what it throws for
ValidateImageBlob(blob) ==
  IF ~IsBlob(blob) THEN "null"
  ELSE IF blob.size = 0 THEN "empty"
  ELSE IF blob.size > MAX_IMAGE_SIZE THEN "too large"
  ELSE IF blob.type = "" THEN "ok"
  ELSE IF blob.type \notin ALLOWED_TYPES THEN "invalid type"
  ELSE "ok"

\* uploadImage(imageUri, groupId, userId) with all three present: the blob
\* is validated before uploadBytes; every failure is rethrown by the catch
UploadImage(p) ==
  /\ Begin(p)
  /\ \E blob \in ResolvedBlobs, o \in UploadOutcomes :
       LET path == ImagePath([callId |-> calls + 1], "main")
           valid == ValidateImageBlob(blob) = "ok"
           wrote == valid /\ o # "no_write"
       IN /\ o # "ok" => (CanFail /\ valid)
          /\ Fault(o # "ok")
          /\ blobs' = IF wrote THEN blobs \cup {path} ELSE blobs
          /\ Become(p, [sess[p] EXCEPT
               !.pc = "up_done", !.op = "upload", !.callId = calls + 1,
               !.q = [fn |-> "uploadImage", blob |-> blob, path |-> path,
                      storage |-> o,
                      outcome |-> IF valid /\ o = "ok" THEN "value"
                                  ELSE "throw"]])
  /\ UNCHANGED <<cache, remoteUser, posts, groupDocs, returned, uncounted,
                 statusWrites>>

\* the caller of uploadImage resumes
UploadReturn(p) ==
  /\ sess[p].pc = "up_done"
  /\ Become(p, IdleSess)
  /\ UNCHANGED <<shared, calls, faults, overlapSeen, returned, uncounted,
                 statusWrites>>

UploadNext ==
  \E p \in Sessions :
    \/ UploadImage(p)
    \/ UploadReturn(p)

UploadInit ==
  /\ BlobInit
  /\ blobs = {}

UploadSpec == UploadInit /\ [][UploadNext]_vars

\* --------------------------------------------------------- handleFileUri
\* imageService.js handleFileUri: the fetch options tried for a file:// URI,
\* by name and in order
FetchMethods ==
  <<"Simple fetch", "With headers", "With specific headers",
    "Minimal options">>

\* what one fetch can come to: a response with bytes, a response with an
\* empty body, a response that is not ok, or a rejected fetch
FetchResults == {"blob", "empty", "not ok", "rejected"}

\* an attempt that accepts an empty body
AttemptSucceeded_AcceptEmpty(result) == result \in {"blob", "empty"}

\* the try block reaches "return blob": response.ok and blob.size !== 0
AttemptSucceeded(result) == result = "blob"

\* handleFileUri(fileUri) is entered: i = 0, nothing tried yet
HandleFileUri(p) ==
  /\ Begin(p)
  /\ Become(p, [sess[p] EXCEPT
       !.pc = "hf_fetch", !.op = "resolve", !.callId = calls + 1,
       !.q = [fn |-> "handleFileUri", i |-> 1, attempts |-> <<>>,
              delays |-> 0, outcome |-> "none"]])
  /\ UNCHANGED <<shared, faults, returned, uncounted, statusWrites>>

\* one turn of the loop up to its next await: fetch with method i, return
\* the blob, or note the error and either wait or, after the last method,
\* leave the loop and throw
FetchAttempt(p) ==
  /\ sess[p].pc = "hf_fetch"
  /\ \E result \in FetchResults :
       LET q == sess[p].q
           tried == [q EXCEPT !.attempts =
                       Append(@, [method |-> FetchMethods[q.i],
                                  result |-> result])]
       IN Become(p,
            IF AttemptSucceeded(result)
              THEN [sess[p] EXCEPT !.pc = "hf_done",
                                   !.q = [tried EXCEPT !.outcome = "value"]]
            ELSE IF q.i < Len(FetchMethods)
              THEN [sess[p] EXCEPT !.pc = "hf_delay", !.q = tried]
            ELSE [sess[p] EXCEPT !.pc = "hf_done",
                                 !.q = [tried EXCEPT !.outcome = "throw"]])
  /\ UNCHANGED <<shared, calls, faults, overlapSeen, returned, uncounted,
                 statusWrites>>

\* await new Promise(resolve => setTimeout(resolve, 300)), then i++
FetchDelay(p) ==
  /\ sess[p].pc = "hf_delay"
  /\ Become(p, [sess[p] EXCEPT !.pc = "hf_fetch", !.q.i = @ + 1,
                               !.q.delays = @ + 1])
  /\ UNCHANGED <<shared, calls, faults, overlapSeen, returned, uncounted,
                 statusWrites>>

\* uriToBlob resumes with the blob or the error
HandleReturn(p) ==
  /\ sess[p].pc = "hf_done"
  /\ Become(p, IdleSess)
  /\ UNCHANGED <<shared, calls, faults, overlapSeen, returned, uncounted,
                 statusWrites>>

LadderNext ==
  \E p \in Sessions :
    \/ HandleFileUri(p)
    \/ FetchAttempt(p)
    \/ FetchDelay(p)
    \/ HandleReturn(p)

LadderSpec == UploadInit /\ [][LadderNext]_vars

\* -------------------------------------------------------- GroupFeedScreen
\* GroupFeedScreen.tsx: the component's state is { user, loading, isLocked }
\* with initial values (null, true, false); loadUserAndFeed runs once per
\* mount.  The device holds no profile, a fresh profile, or the profile of
\* a user whose one post, in group g1, is in the post store.
FirstPost ==
  [PostData(GoodInput, [main |-> <<1, "main">>, front |-> NoPath])
     EXCEPT !.id = 1]

FeedInit ==
  /\ \E posted \in BOOLEAN :
       /\ cache \in IF posted
                     THEN {[FreshUser(U1) EXCEPT !.groupsPosted = <<G1>>,
                                                 !.totalPosts = 1]}
                     ELSE {NoUser, FreshUser(U1)}
       /\ posts = IF posted THEN {FirstPost} ELSE {}
       /\ blobs = IF posted THEN {FirstPost.imagePath} ELSE {}
       /\ groupDocs =
            [g \in GroupKeys |->
               [members |-> <<U1>>, memberCount |-> 1,
                totalPosts |-> IF posted /\ g = G1 THEN 1 ELSE 0]]
       /\ remoteUser = [groupsPosted |-> IF posted THEN <<G1>> ELSE <<>>,
                        totalPosts |-> IF posted THEN 1 ELSE 0,
                        groups |-> {}]
  /\ sess = [p \in Sessions |-> IdleSess]
  /\ calls = 0
  /\ faults = 0
  /\ overlapSeen = FALSE
  /\ returned = [u \in {U1, U2} |-> 0]
  /\ uncounted = [g \in GroupKeys |-> 0]
  /\ statusWrites = 0

\* currentUser.groupsPosted?.includes(groupId) || false
HasPostedInGroup(user, g) == Includes(user.groupsPosted, g)

\* the screen is mounted for the groupId of the navigation params (which
\* may be missing); useEffect starts loadUserAndFeed
MountFeed(p) ==
  /\ Begin(p)
  /\ \E g \in GroupKeys \cup {Null} :
       Become(p, [sess[p] EXCEPT
         !.pc = "feed_user", !.op = "feed", !.callId = calls + 1,
         !.q = [fn |-> "GroupFeedScreen", groupId |-> g, user |-> NoUser,
                loading |-> TRUE, isLocked |-> FALSE,
                hasPostedInGroup |-> FALSE, loadError |-> FALSE]])
  /\ UNCHANGED <<shared, faults, returned, uncounted, statusWrites>>

\* const currentUser = await getUserLocally(); setUser(currentUser); with
\* no user or no groupId the if block is skipped and finally ends loading
FeedLoadUser(p) ==
  /\ sess[p].pc = "feed_user"
  /\ \E f \in BOOLEAN :
       LET q == sess[p].q
           user == ReadUser(f)
           enter == IsUser(user) /\ Truthy(q.groupId)
       IN /\ f => CanFail
          /\ Fault(f)
          /\ Become(p, [sess[p] EXCEPT
               !.pc = IF enter THEN "feed_posts" ELSE "feed_shown",
               !.q = [q EXCEPT
                        !.user = user,
                        !.hasPostedInGroup =
                          enter /\ HasPostedInGroup(user, q.groupId),
                        !.loading = enter]])
  /\ UNCHANGED <<shared, calls, overlapSeen, returned, uncounted,
                 statusWrites>>

\* const groupPosts = await getGroupPosts(groupId); then setIsLocked; a
\* getGroupPosts that throws (postService.ts rethrows a failed query) ends
\* in the catch, which only logs, and finally ends loading
FeedLoadPosts(p) ==
  /\ sess[p].pc = "feed_posts"
  /\ \E threw \in BOOLEAN :
       LET q == sess[p].q
       IN /\ threw => CanFail
          /\ Fault(threw)
          /\ Become(p, [sess[p] EXCEPT
               !.pc = "feed_shown",
               !.q = [q EXCEPT
                        !.isLocked = IF threw THEN @
                                     ELSE ~q.hasPostedInGroup,
                        !.loadError = threw,
                        !.loading = FALSE]])
  /\ UNCHANGED <<shared, calls, overlapSeen, returned, uncounted,
                 statusWrites>>

\* the screen is left
FeedUnmount(p) ==
  /\ sess[p].pc = "feed_shown"
  /\ Become(p, IdleSess)
  /\ UNCHANGED <<shared, calls, faults, overlapSeen, returned, uncounted,
                 statusWrites>>

FeedNext ==
  \E p \in Sessions :
    \/ MountFeed(p)
    \/ FeedLoadUser(p)
    \/ FeedLoadPosts(p)
    \/ FeedUnmount(p)

FeedSpec == FeedInit /\ [][FeedNext]_vars

\* ------------------------------------------------------- group membership
\* groupService.ts.  joinGroup and leaveGroup read the group document, then
\* write the members list computed from that read together with an atomic
\* increment of memberCount; createGroup writes a new document.  They write
\* only members and memberCount, which no posting flow reads for a decision
\* (validateGroupMembership only logs), so they are explored on their own.
Digits == <<"1", "2", "3", "4", "5", "6", "7", "8", "9">>

\* 'group_' + Date.now() + '_' + random: a key no earlier group has
NewGroupKey(n) == <<"n", Digits[n]>>

\* getDoc(doc(db, 'groups', groupId)) of joinGroup / leaveGroup, up to the
\* updateDoc: a failed read, a missing group or (joinGroup) a user who is
\* already a member throws
ReadGroup(p, op, userId, g) ==
  /\ Begin(p)
  /\ \E f \in BOOLEAN :
       LET members == groupDocs[g].members
           throws == f \/ (op = "join" /\ Includes(members, userId))
       IN /\ f => CanFail
          /\ Fault(f)
          /\ Become(p,
               IF throws THEN IdleSess
               ELSE [sess[p] EXCEPT
                 !.pc = "g_write", !.op = op, !.callId = calls + 1,
                 !.grp = [userId |-> userId, groupId |-> g,
                          members |-> members]])
  /\ UNCHANGED <<shared, returned, uncounted, statusWrites>>

JoinGroup(p) ==
  \E u \in {U1, U2}, g \in DOMAIN groupDocs : ReadGroup(p, "join", u, g)

LeaveGroup(p) ==
  \E u \in {U1, U2}, g \in DOMAIN groupDocs : ReadGroup(p, "leave", u, g)

\* groupData.members.filter(id => id !== userId)
WithoutMember(members, userId) ==
  SelectSeq(members, LAMBDA id : id # userId)

\* updateDoc(groupRef, { members, memberCount: increment(+1 / -1) })
WriteGroup(p) ==
  /\ sess[p].pc = "g_write"
  /\ \E ok \in BOOLEAN :
       LET s == sess[p]
           g == s.grp.groupId
           join == s.op = "join"
       IN /\ ~ok => CanFail
          /\ Fault(~ok)
          /\ groupDocs' =
               IF ok
                 THEN [groupDocs EXCEPT
                   ![g].members =
                     IF join THEN Append(s.grp.members, s.grp.userId)
                     ELSE WithoutMember(s.grp.members, s.grp.userId),
                   ![g].memberCount = IF join THEN @ + 1 ELSE @ - 1]
                 ELSE groupDocs
          /\ Become(p, IdleSess)
  /\ UNCHANGED <<cache, remoteUser, posts, blobs, calls, overlapSeen,
                 returned, uncounted, statusWrites>>

\* setDoc(doc(db, 'groups', groupId), groupData) with memberCount 1 and
\* members [ownerId]
CreateGroup(p) ==
  /\ Begin(p)
  /\ \E owner \in {U1, U2}, ok \in BOOLEAN :
       LET key == NewGroupKey(calls + 1)
           groupData == [members |-> <<owner>>, memberCount |-> 1,
                         totalPosts |-> 0]
       IN /\ ~ok => CanFail
          /\ Fault(~ok)
          /\ groupDocs' =
               IF ok
                 THEN [k \in DOMAIN groupDocs \cup {key} |->
                         IF k = key THEN groupData ELSE groupDocs[k]]
                 ELSE groupDocs
  /\ UNCHANGED <<cache, remoteUser, posts, blobs, sess, returned,
                 uncounted, statusWrites>>

GroupNext ==
  \E p \in Sessions :
    \/ JoinGroup(p)
    \/ LeaveGroup(p)
    \/ WriteGroup(p)
    \/ CreateGroup(p)

GroupSpec == Init /\ [][GroupNext]_vars

AtReturn(p) == sess[p].pc = "cp_done"
ReturnedAPost(p) == AtReturn(p) /\ sess[p].res.kind = "post"
AllIdle == \A p \in Sessions : sess[p].pc = "idle"
SetOf(seq) == {seq[i] : i \in 1..Len(seq)}
NoPostOf(p) == \A d \in posts : d.id # sess[p].callId

\* C1 (as stated): in every state right after createPost for group g has
\* returned a Post, the cached profile's groupsPosted contains g.
C1_UnlockAfterEveryReturn ==
  \A p \in Sessions :
    ReturnedAPost(p) => IsUnlocked(cache, sess[p].args.groupId)

\* C1 (amended): right after createPost for group g has returned a Post,
\* groupsPosted contains g provided the call's posting-status update was
\* saved to the profile cache and no operation overlapped with another.
C1_UnlockAfterSavedReturn ==
  \A p \in Sessions :
    (ReturnedAPost(p) /\ sess[p].persisted /\ ~overlapSeen)
      => IsUnlocked(cache, sess[p].args.groupId)

C1_Witness ==
  \E p \in Sessions :
    /\ ReturnedAPost(p) /\ sess[p].persisted /\ ~overlapSeen
    /\ sess[p].st.isFirstPostInGroup
    /\ IsUnlocked(cache, sess[p].args.groupId)

\* recordPost (updatePostStatistics) ran to its end without throwing
C2_Completed(p) == ReturnedAPost(p) /\ sess[p].res.statsError = "none"

C3_NoReverseTransition ==
  [][\A g \in GroupKeys : IsUnlocked(cache, g) => IsUnlocked(cache', g)]_vars

\* C3 (amended): once g is in groupsPosted it stays there in every later
\* state, as long as no operation has overlapped with another.
C3_NoReverseTransitionSerial ==
  [][\A g \in GroupKeys :
       (~overlapSeen' /\ IsUnlocked(cache, g)) => IsUnlocked(cache', g)]_vars

\* a later post in another group is about to write the profile
C3_Witness ==
  \E p \in Sessions, g \in GroupKeys :
    /\ ~overlapSeen /\ IsUnlocked(cache, g)
    /\ sess[p].pc = "ul_write" /\ sess[p].ul.from = "status"
    /\ sess[p].args.groupId # g

\* C4 (as stated): starting from a fresh profile, after N createPost calls
\* by the profile's user that each returned a Post, totalPosts = N.
C4_TotalPostsIsN ==
  (AllIdle /\ IsUser(cache) /\ returned[U2] = 0)
    => cache.totalPosts = returned[cache.id]

\* C4 (amended): starting from a fresh profile, after N createPost calls by
\* the profile's user that each returned a Post, did not overlap with
\* another operation and had their posting-status update saved to the
\* profile cache, totalPosts = N.
C4_TotalPostsIsNWhenSaved ==
  (AllIdle /\ IsUser(cache) /\ returned[U2] = 0 /\ ~overlapSeen
     /\ statusWrites = returned[cache.id])
    => cache.totalPosts = returned[cache.id]

C4_Witness ==
  /\ AllIdle /\ IsUser(cache) /\ returned[U2] = 0 /\ ~overlapSeen
  /\ returned[U1] = 2 /\ statusWrites = 2 /\ cache.totalPosts = 2

\* C5: in every reachable state no group id occurs twice in the cached
\* profile's groupsPosted.
C5_FirstPostOnce ==
  IsUser(cache) =>
    \A i, j \in 1..Len(cache.groupsPosted) :
      i # j => cache.groupsPosted[i] # cache.groupsPosted[j]

\* two posts were made in one group, which is listed once
C5_Witness ==
  \E g \in GroupKeys :
    /\ IsUser(cache) /\ Occurrences(cache.groupsPosted, g) = 1
    /\ Cardinality({d \in posts : d.groupId = g}) >= 2
    /\ statusWrites >= 2

\* createPost settled after the back image was uploaded and the front
\* upload failed
C6_FrontFailed(p) ==
  /\ AtReturn(p) /\ Truthy(sess[p].args.front)
  /\ sess[p].img.main # NoPath /\ sess[p].img.front = NoPath

\* C6 (as stated): when the back upload succeeds and the front upload
\* fails, the back image's path is deleted from blob storage, createPost
\* rejects and no Post document is written.
C6_BackImageDeleted ==
  \A p \in Sessions :
    C6_FrontFailed(p) =>
      /\ sess[p].img.main \notin blobs
      /\ sess[p].res.kind = "error"
      /\ NoPostOf(p)

\* C6 (amended): when the back upload succeeds and the front upload fails,
\* the deletion of the back image's path is attempted, the path is gone
\* from blob storage if that deletion succeeded, createPost rejects and no
\* Post document is written.
C6_BackImageCleanupAttempted ==
  \A p \in Sessions :
    C6_FrontFailed(p) =>
      /\ sess[p].cleanup # "none"
      /\ sess[p].cleanup = "deleted" => sess[p].img.main \notin blobs
      /\ sess[p].res.kind = "error"
      /\ NoPostOf(p)

C6_Witness ==
  \E p \in Sessions :
    /\ C6_FrontFailed(p) /\ sess[p].cleanup = "deleted"
    /\ sess[p].img.main \notin blobs /\ sess[p].res.kind = "error"

\* C7: once the Post document write has succeeded, createPost returns the
\* created Post with the id the store assigned, whatever the statistics
\* synchronizer raised afterwards.
C7_StatisticsNonBlocking ==
  \A p \in Sessions :
    (AtReturn(p) /\ "write" \in sess[p].eff) =>
      /\ sess[p].res.kind = "post"
      /\ sess[p].res.post.id = sess[p].callId
      /\ sess[p].res.post \in posts

\* a Post was returned although the synchronizer threw
C7_Witness ==
  \E p \in Sessions :
    /\ AtReturn(p) /\ "write" \in sess[p].eff
    /\ sess[p].res.kind = "post" /\ sess[p].res.statsError # "none"

\* C8: when the document-store query fails, getGroupPosts, getUserPosts and
\* getUserPostsInGroup return an empty sequence and do not throw.
C8_ReadFailOpen ==
  \A p \in Sessions :
    (sess[p].pc = "q_done" /\ sess[p].q.storeFailed) =>
      sess[p].q.outcome = "value" /\ sess[p].q.docs = {}

\* C9: if the Post document write fails, createPost rejects, no Post
\* document exists for the attempt, and neither the cached profile nor the
\* group's totalPosts counter changes, then or in what the caller does next.
C9_WriteFailureTerminal ==
  [][\A p \in Sessions :
       /\ (sess[p].pc = "cp_write" /\ sess'[p] # sess[p]
             /\ faults' = faults + 1) =>
            /\ sess'[p].pc = "cp_done"
            /\ sess'[p].res = Rejected("write")
            /\ posts' = posts /\ cache' = cache /\ groupDocs' = groupDocs
            /\ \A d \in posts' : d.id # sess[p].callId
       /\ (AtReturn(p) /\ sess[p].res = Rejected("write")
             /\ sess'[p] # sess[p]) =>
            /\ sess'[p] = IdleSess
            /\ posts' = posts /\ cache' = cache /\ groupDocs' = groupDocs
    ]_vars

C9_Witness ==
  \E p \in Sessions :
    AtReturn(p) /\ sess[p].res = Rejected("write") /\ NoPostOf(p)

\* text that is empty or consists of spaces only
C10_Blank(t) == \A i \in 1..Len(t) : t[i] = " "

\* a required argument is missing: no back image, an empty or
\* whitespace-only caption, an empty author name, author id or group id
C10_MissingInput(a) ==
  \/ a.back \in {Null, <<>>}
  \/ a.caption = Null \/ C10_Blank(a.caption)
  \/ a.authorName \in {Null, <<>>}
  \/ a.authorId \in {Null, <<>>}
  \/ a.groupId \in {Null, <<>>}

\* C10: a createPost call with a missing required argument rejects before
\* any membership lookup, blob upload, Post write or statistics update.
C10_ValidationFailsFast ==
  \A p \in Sessions :
    (sess[p].args # None /\ C10_MissingInput(sess[p].args)) =>
      /\ sess[p].pc = "cp_done"
      /\ sess[p].res = Rejected("validation")
      /\ sess[p].eff = {}
      /\ sess[p].img = NoImg /\ sess[p].newPost = None
      /\ ~sess[p].persisted
      /\ NoPostOf(p)
      /\ \A b \in blobs : b[1] # sess[p].callId

C10_Witness ==
  \E p \in Sessions :
    /\ sess[p].args # None /\ C10_MissingInput(sess[p].args)
    /\ sess[p].res = Rejected("validation")

\* C11: a createPost without a front image performs exactly one upload, of
\* type main, and yields a single_camera Post whose front image fields are
\* all null; a createPost with a front image yields a dual_camera Post with
\* the main descriptor in imageUrl/imagePath/imageSize and the front
\* descriptor in the front fields.
C11_PostShape ==
  \A p \in Sessions :
    ReturnedAPost(p) =>
      LET s == sess[p]
          post == s.res.post
          main == Descriptor(ImagePath(s, "main"))
          front == Descriptor(ImagePath(s, "front"))
      IN /\ post.imageUrl = main.downloadURL
         /\ post.imagePath = main.path
         /\ post.imageSize = main.size
         /\ post.imagePath \in blobs
         /\ IF Truthy(s.args.front)
              THEN /\ s.uploads = <<"main", "front">>
                   /\ post.type = "dual_camera"
                   /\ post.frontImageUrl = front.downloadURL
                   /\ post.frontImagePath = front.path
                   /\ post.frontImageSize = front.size
              ELSE /\ s.uploads = <<"main">>
                   /\ post.type = "single_camera"
                   /\ post.frontImageUrl = Null
                   /\ post.frontImagePath = Null
                   /\ post.frontImageSize = Null

\* both shapes have been returned
C11_Witness ==
  \E p, q \in Sessions :
    /\ ReturnedAPost(p) /\ sess[p].res.post.type = "single_camera"
    /\ sess[p].res.post.frontImageUrl = Null
    /\ ReturnedAPost(q) /\ sess[q].res.post.type = "dual_camera"
    /\ sess[q].res.post.frontImagePath = ImagePath(sess[q], "front")

\* a createPost call returns a Post in this step
C12_Returns(p) ==
  /\ sess[p].pc # "cp_done"
  /\ sess'[p].pc = "cp_done" /\ sess'[p].res.kind = "post"

\* totalPosts changes by d in this step
C12_Grows(d) == cache'.totalPosts = cache.totalPosts + d

\* C12 (as stated): in every behaviour, interleaved createPost calls
\* included, totalPosts never decreases and grows by exactly one per
\* createPost that returns a Post: only a posting-status write changes it,
\* by one, and every call that returns a Post has made that write.
C12_CounterExact ==
  [][IsUser(cache) =>
       /\ C12_Grows(IF statusWrites' # statusWrites THEN 1 ELSE 0)
       /\ \A p \in Sessions : C12_Returns(p) => sess'[p].persisted]_vars

\* C12 (amended): when the operations on the cached profile do not
\* overlap, totalPosts never decreases and grows by exactly one with each
\* createPost whose posting-status update is written to the cache, and by
\* nothing in any other step.
C12_CounterExactSerial ==
  [][(IsUser(cache) /\ ~overlapSeen') =>
       C12_Grows(IF statusWrites' # statusWrites THEN 1 ELSE 0)]_vars

\* a call returned a Post after its status write raised the counter to 1
C12_Witness ==
  /\ ~overlapSeen /\ IsUser(cache)
  /\ cache.totalPosts = 1 /\ statusWrites = 1
  /\ \E p \in Sessions : ReturnedAPost(p) /\ sess[p].persisted

\* C13: after any sequence and any interleaving of completed createGroup,
\* joinGroup and leaveGroup operations, every group document's memberCount
\* equals the number of entries of its members list, also when leaveGroup
\* was called by a user who is not a member.
C13_MemberCountTracksMembers ==
  AllIdle =>
    \A g \in DOMAIN groupDocs :
      groupDocs[g].memberCount = Len(groupDocs[g].members)

\* a createPost call of session p has not settled yet
InFlight(p) == sess[p].args # None /\ sess[p].pc # "cp_done"
NoneInFlight == \A p \in Sessions : ~InFlight(p)
PostsIn(g) == {d \in posts : d.groupId = g}

\* C14 (as stated): whenever no createPost call is in flight, each group
\* document's totalPosts equals the number of Post documents whose groupId
\* is that group.
C14_GroupTotalTracksPosts ==
  NoneInFlight =>
    \A g \in GroupKeys :
      groupDocs[g].totalPosts = Cardinality(PostsIn(g))

\* C14 (amended): a group document's totalPosts never exceeds the number of
\* Post documents of that group, and whenever no createPost call is in
\* flight it equals that number minus the Posts whose createPost returned
\* without the group counter increment having been applied.
C14_GroupTotalTracksCountedPosts ==
  \A g \in GroupKeys :
    /\ groupDocs[g].totalPosts <= Cardinality(PostsIn(g))
    /\ NoneInFlight =>
         groupDocs[g].totalPosts + uncounted[g] = Cardinality(PostsIn(g))

\* two Posts in one group, one of them counted
C14_Witness ==
  \E g \in GroupKeys :
    /\ NoneInFlight /\ Cardinality(PostsIn(g)) = 2
    /\ groupDocs[g].totalPosts = 1 /\ uncounted[g] = 1

\* session p writes the activity log to the cache in this step, and the
\* write does not fail
C15_LogWrite(p) ==
  /\ sess[p].pc = "ul_write" /\ sess[p].ul.from = "activity"
  /\ sess'[p] # sess[p] /\ faults' = faults

\* C15: after any sequence of updateUserActivity calls the activity log has
\* at most 50 entries, they are the most recently appended ones in append
\* order, and the entry just appended is last: each log write of calls that
\* run one after another appends the call's entry and evicts from the front
\* only, and no state has a longer log.
C15_ActivityLogBounded ==
  [][IsUser(cache') =>
     /\ Len(cache'.activityLog) <= ACTIVITY_LOG_CAP
     /\ \A p \in Sessions :
          (C15_LogWrite(p) /\ ~overlapSeen') =>
            LET old == cache.activityLog
                new == cache'.activityLog
                kept == Len(new) - 1
            IN /\ Len(new) = IF Len(old) < ACTIVITY_LOG_CAP
                               THEN Len(old) + 1 ELSE ACTIVITY_LOG_CAP
               /\ new[Len(new)] = sess[p].ul.entry
               /\ new[Len(new)].call = sess[p].callId
               /\ \A i \in 1..kept :
                    new[i] = old[Len(old) - kept + i]]_vars

\* a full log took one more entry: the oldest was evicted
C15_Witness ==
  /\ ~overlapSeen /\ calls = 2
  /\ Len(cache.activityLog) = ACTIVITY_LOG_CAP
  /\ cache.activityLog[ACTIVITY_LOG_CAP].call = 2
  /\ cache.activityLog[ACTIVITY_LOG_CAP - 1].call = 1
  /\ cache.activityLog[1].call > 1 - ACTIVITY_LOG_CAP

\* C16: deleteImage never throws; on a path whose object is absent, and so
\* on a path it has already deleted, it returns true; when the deletion
\* fails for any other reason it returns false; after a true result the
\* object is not in storage.
C16_DeleteIdempotent ==
  \A p \in Sessions :
    sess[p].pc = "del_done" =>
      LET r == sess[p].q
      IN /\ r.outcome = "value"
         /\ (Truthy(r.path) /\ ~r.failed) => r.value
         /\ r.failed => ~r.value
         /\ r.value => r.path \notin blobs

\* a second deletion of a path that an earlier call deleted reports true
C16_Witness ==
  \E p \in Sessions :
    /\ sess[p].pc = "del_done" /\ calls = 2
    /\ blobs # {} /\ sess[p].q.path \in BlobPaths
    /\ ~sess[p].q.present /\ sess[p].q.value

\* C17: within one recordPost the cached profile update is persisted
\* before the group's totalPosts increment is attempted, and the group
\* counter update is never attempted before the user status update.
C17_UserStatusDurableFirst ==
  \A p \in Sessions :
    (sess[p].args # None /\ "group" \in sess[p].eff) =>
      "stats" \in sess[p].eff /\ sess[p].persisted

\* C18: a failure of the user posting-status update does not prevent the
\* group counter update for the same post from being attempted, so every
\* createPost that returns a Post has attempted it; and a failed group
\* counter update leaves the user status update in place.
C18_SubStepsIndependent ==
  \A p \in Sessions :
    ReturnedAPost(p) =>
      /\ "group" \in sess[p].eff
      /\ (sess[p].persisted /\ ~overlapSeen) =>
           IsUnlocked(cache, sess[p].args.groupId)

\* C19: when the group counter update fails with permission-denied,
\* updateGroupStatistics completes normally and nothing is raised; when it
\* fails with any other error, the error reaches createPost's catch, which
\* swallows it: createPost returns the Post either way, and the counter
\* grows only when the update succeeded.
C19_GroupErrorPolicy ==
  [][\A p \in Sessions :
       (sess[p].pc = "gs_update" /\ sess'[p] # sess[p]) =>
         LET g == sess[p].args.groupId
             r == sess'[p]
         IN /\ r.pc = "cp_done" /\ r.res.kind = "post"
            /\ r.res.post = sess[p].newPost
            /\ r.gs \in {"ok", "permission-denied"} => r.res.statsError = "none"
            /\ r.gs \notin {"ok", "permission-denied"} =>
                 r.res.statsError = r.gs
            /\ r.gs # "ok" => groupDocs' = groupDocs
            /\ r.gs = "ok" =>
                 groupDocs'[g].totalPosts = groupDocs[g].totalPosts + 1]_vars

\* both kinds of failure have been seen by one run's two calls
C19_Witness ==
  \E p \in Sessions :
    /\ ReturnedAPost(p) /\ sess[p].gs = "unavailable"
    /\ sess[p].res.statsError = "unavailable"

\* a permission-denied failure was swallowed by updateGroupStatistics
C19_WitnessDenied ==
  \E p \in Sessions :
    /\ ReturnedAPost(p) /\ sess[p].gs = "permission-denied"
    /\ sess[p].res.statsError = "none"

\* session p is inside updateUserPostingStatus, after its profile read
C20_InStatusUpdate(p) ==
  sess[p].args # None /\ sess[p].st # None /\ sess[p].pc # "cp_done"

\* C20: in the user posting-status update, the activity record is tagged
\* first_post_in_group exactly when groupId was not in the cached
\* profile's groupsPosted at the start of the update, and groupId is then
\* appended to groupsPosted; otherwise it is tagged posted_in_group and
\* groupsPosted is not written; totalPosts is raised by one in both cases.
C20_FirstPostDetection ==
  \A p \in Sessions :
    C20_InStatusUpdate(p) =>
      LET s == sess[p]
          g == s.args.groupId
          first == ~Includes(s.st.groupsPosted, g)
          tag == IF first THEN "first_post_in_group" ELSE "posted_in_group"
      IN /\ s.st.isFirstPostInGroup = first
         /\ (s.ul # None /\ s.ul.from = "status") =>
              /\ s.ul.data.totalPosts = s.st.totalPosts + 1
              /\ first => s.ul.data.groupsPosted = Append(s.st.groupsPosted, g)
              /\ ~first => "groupsPosted" \notin DOMAIN s.ul.data
         /\ s.ua # None => s.ua.type = tag /\ s.ua.groupId = g
         /\ (s.ul # None /\ s.ul.from = "activity") =>
              /\ s.ul.entry.type = tag
              /\ s.ul.entry = s.ul.data.activityLog[Len(s.ul.data.activityLog)]

\* a later post in an unlocked group is about to log posted_in_group
C20_Witness ==
  \E p \in Sessions :
    /\ C20_InStatusUpdate(p) /\ ~sess[p].st.isFirstPostInGroup
    /\ sess[p].ul # None /\ sess[p].ul.from = "activity"
    /\ sess[p].ul.entry.type = "posted_in_group"
    /\ sess[p].st.totalPosts = 1

\* C21: every Post document in the store has a non-empty imageUrl, and
\* every dual_camera Post also a non-empty frontImageUrl; in createPost the
\* back image is uploaded first, the front image is uploaded only after the
\* back upload returned its descriptor, and the Post is written only after
\* every upload of the call returned a descriptor with a retrieval URL.
C21_UploadsPrecedeCommit ==
  /\ \A d \in posts :
       /\ Truthy(d.imageUrl)
       /\ d.imageUrl = Descriptor(<<d.id, "main">>).downloadURL
       /\ d.type = "dual_camera" =>
            /\ Truthy(d.frontImageUrl)
            /\ d.frontImageUrl = Descriptor(<<d.id, "front">>).downloadURL
  /\ \A p \in Sessions :
       sess[p].args # None =>
         LET s == sess[p]
             dual == Truthy(s.args.front)
         IN /\ s.uploads \in {<<>>, <<"main">>, <<"main", "front">>}
            /\ Includes(s.uploads, "front") => dual /\ s.img.main # NoPath
            /\ s.img.front # NoPath => s.img.main # NoPath
            /\ (s.pc = "cp_write" \/ "write" \in s.eff) =>
                 /\ s.img.main # NoPath
                 /\ s.uploads = IF dual THEN <<"main", "front">>
                                ELSE <<"main">>
                 /\ dual => s.img.front # NoPath
                 /\ s.newPost.imageUrl = Descriptor(s.img.main).downloadURL
                 /\ dual => s.newPost.frontImageUrl =
                              Descriptor(s.img.front).downloadURL

\* a dual-camera Post was committed after both of its uploads
C21_Witness ==
  \E p \in Sessions :
    /\ sess[p].args # None /\ "write" \in sess[p].eff
    /\ sess[p].uploads = <<"main", "front">>
    /\ \E d \in posts : d.id = sess[p].callId /\ d.type = "dual_camera"

\* the resolved bytes pass the three checks of the claim
C22_Acceptable(blob) ==
  /\ blob.size > 0
  /\ blob.size <= 5 * 1024 * 1024
  /\ blob.type \in {"", "image/jpeg", "image/jpg", "image/png", "image/webp"}

\* C22: uploadImage writes a blob to storage only if the resolved bytes
\* are non-empty, at most 5 MiB (exactly 5 MiB is accepted, one byte more
\* is rejected) and of no declared type or an allowed image type; otherwise
\* it fails without writing anything.
C22_ValidationGatesWrite ==
  \A p \in Sessions :
    sess[p].pc = "up_done" =>
      LET q == sess[p].q
      IN /\ q.path \in blobs => C22_Acceptable(q.blob)
         /\ ~C22_Acceptable(q.blob) =>
              q.outcome = "throw" /\ q.path \notin blobs
         /\ (C22_Acceptable(q.blob) /\ q.storage = "ok") =>
              q.outcome = "value" /\ q.path \in blobs

\* a blob of exactly 5 MiB with no declared type was written
C22_Witness ==
  \E p \in Sessions :
    /\ sess[p].pc = "up_done"
    /\ sess[p].q.blob = [size |-> 5242880, type |-> ""]
    /\ sess[p].q.path \in blobs /\ sess[p].q.outcome = "value"

\* a blob one byte over the maximum was rejected and nothing was written
C22_WitnessOver ==
  \E p \in Sessions :
    /\ sess[p].pc = "up_done"
    /\ sess[p].q.blob.size = 5242881
    /\ sess[p].q.path \notin blobs /\ sess[p].q.outcome = "throw"

\* session p is inside handleFileUri
C23_InLadder(p) == sess[p].pc \in {"hf_fetch", "hf_delay", "hf_done"}

\* C23: for a file:// reference the strategies are tried one at a time in
\* their fixed order; the first one that returns a successful, non-empty
\* result ends the ladder and no later one is attempted; a delay occurs
\* only between attempts, not after the last; and the ladder ends after at
\* most four attempts, throwing when all are exhausted.
C23_FallbackLadder ==
  \A p \in Sessions :
    C23_InLadder(p) =>
      LET q == sess[p].q
          n == Len(q.attempts)
          order == <<"Simple fetch", "With headers", "With specific headers",
                     "Minimal options">>
      IN /\ n <= 4
         /\ \A k \in 1..n : q.attempts[k].method = order[k]
         /\ \A k \in 1..(n - 1) : q.attempts[k].result # "blob"
         /\ sess[p].pc = "hf_fetch" =>
              n < 4 /\ q.i = n + 1 /\ q.delays = n /\ q.outcome = "none"
         /\ sess[p].pc = "hf_delay" =>
              /\ n \in 1..3 /\ q.delays = n - 1 /\ q.outcome = "none"
              /\ q.attempts[n].result # "blob"
         /\ sess[p].pc = "hf_done" =>
              /\ n >= 1 /\ q.delays = n - 1
              /\ q.outcome = "value" <=> q.attempts[n].result = "blob"
              /\ q.outcome = "throw" <=>
                   (n = 4 /\ \A k \in 1..4 : q.attempts[k].result # "blob")

\* the third strategy succeeded after an empty body and a rejected fetch
C23_Witness ==
  \E p \in Sessions :
    /\ sess[p].pc = "hf_done" /\ sess[p].q.outcome = "value"
    /\ Len(sess[p].q.attempts) = 3 /\ sess[p].q.delays = 2
    /\ sess[p].q.attempts[1].result = "empty"
    /\ sess[p].q.attempts[3].method = "With specific headers"

\* all four strategies failed and the ladder threw
C23_WitnessExhausted ==
  \E p \in Sessions :
    /\ sess[p].pc = "hf_done" /\ sess[p].q.outcome = "throw"
    /\ Len(sess[p].q.attempts) = 4 /\ sess[p].q.delays = 3

\* session p takes the step of updateUserLocally that saves and mirrors,
\* with syncToFirebase = true, and the remote document update fails: the
\* update would have changed the remote document and it is unchanged
C24_MirrorFails(p) ==
  /\ sess[p].pc = "ul_write" /\ sess'[p] # sess[p]
  /\ sess[p].ul.sync /\ Truthy(sess[p].ul.cur.id)
  /\ MirrorUser(remoteUser, sess[p].ul.data) # remoteUser
  /\ remoteUser' = remoteUser

\* C24: in updateUserLocally with syncToFirebase = true, when the remote
\* document update fails the call still returns the merged profile (its
\* caller goes on as after a success) and the local cache holds the merged
\* profile.
C24_MirrorFailureNonFatal ==
  [][\A p \in Sessions :
       C24_MirrorFails(p) =>
         /\ sess'[p] = Leave([sess[p] EXCEPT
                               !.persisted = sess'[p].persisted, !.ul = None],
                             sess[p].ul.ret)
         /\ cache' = MergeUser(sess[p].ul.cur, sess[p].ul.data)]_vars

\* some Post document refers to the object at path
C25_Referenced(path) ==
  \E d \in posts : d.imagePath = path \/ d.frontImagePath = path

\* C25: whenever no createPost call is in flight, every blob that a
\* createPost call wrote to blob storage is referenced by the imagePath or
\* frontImagePath of some Post document.
C25_NoOrphanedBlobs ==
  NoneInFlight => \A path \in blobs : C25_Referenced(path)

\* positions of the log's first_post_in_group records for group g
C26_UnlockEvents(log, g) ==
  {i \in 1..Len(log) :
     log[i].type = "first_post_in_group" /\ log[i].groupId = g}

\* C26: at most one activity record tagged first_post_in_group for a given
\* group is ever appended to the profile's activity log, across post
\* submissions through the caption screen and interleaved createPost calls.
C26_OneUnlockEvent ==
  IsUser(cache) =>
    \A g \in GroupKeys :
      Cardinality(C26_UnlockEvents(cache.activityLog, g)) <= 1

\* session p takes the step of updateUserPostingStatus's updateUserLocally
\* that saves, and the cached totalPosts or groupsPosted changes with it
C27_StatusChangesProfile(p) ==
  /\ sess[p].pc = "ul_write" /\ sess'[p] # sess[p]
  /\ sess[p].ul.from = "status"
  /\ IsUser(cache) /\ IsUser(cache')
  /\ \/ cache'.totalPosts # cache.totalPosts
     \/ cache'.groupsPosted # cache.groupsPosted

\* C27: updateUserPostingStatus changes the cached profile's totalPosts and
\* groupsPosted only when the cached profile's id equals the post's
\* authorId; when they differ the cached profile is left unchanged.
C27_OnlyAuthorsProfile ==
  [][\A p \in Sessions :
       C27_StatusChangesProfile(p) => cache.id = sess[p].args.authorId]_vars

\* C28: in every reachable state, for each group g in the cached profile's
\* groupsPosted the post store contains at least one Post whose authorId is
\* the profile's id and whose groupId is g.
C28_UnlockNeedsCommittedPost ==
  IsUser(cache) =>
    \A i \in 1..Len(cache.groupsPosted) :
      \E d \in posts :
        d.authorId = cache.id /\ d.groupId = cache.groupsPosted[i]

\* C29: once loading has finished, GroupFeedScreen is in the unlocked
\* state (isLocked = false) only if a cached profile exists and groupId is
\* in its groupsPosted; with no cached profile, a missing groupId or a load
\* error the feed is shown locked.
C29_FeedLockedUnlessUnlocked ==
  \A p \in Sessions :
    (sess[p].pc = "feed_shown" /\ ~sess[p].q.loading) =>
      /\ ~sess[p].q.isLocked =>
           /\ Truthy(sess[p].q.groupId)
           /\ IsUnlocked(cache, sess[p].q.groupId)
      /\ (~IsUser(sess[p].q.user) \/ ~Truthy(sess[p].q.groupId)
            \/ sess[p].q.loadError) => sess[p].q.isLocked

\* C30: updateUserLocally mirrors an update to the remote user document
\* only after the local cache write of the same update has succeeded, so
\* every group in the remote document's groupsPosted is also in the local
\* cache's groupsPosted.
C30_LocalDurabilityFirst ==
  IsUser(cache) =>
    \A i \in 1..Len(remoteUser.groupsPosted) :
      Includes(cache.groupsPosted, remoteUser.groupsPosted[i])

====
